---- MODULE Spec2Model ----
(***************************************************************************)
(* Model of the contextual-subspace scripts of symmer:                     *)
(*   scripts/run_cs.py   the reduction search loop and its pickle.dump     *)
(*   scripts/run_vqe.py  the VQE repetition loop and its pickle.dump       *)
(*   symmer/utils.py     exact_gs_energy                                   *)
(* Energies are integers in units of 1e-4 Hartree, so the chemical         *)
(* accuracy 0.0016 is 16 units.                                            *)
(***************************************************************************)
EXTENDS Integers, Sequences, FiniteSets, TLC

VARIABLES
    \* ---- scripts/run_cs.py ----
    n_qubits,       \* H.n_qubits
    n_taper,        \* QT.n_taper
    fci_energy,     \* data_dict[...]["FCI"]["energy"] / data["fci_energy"]
    n,              \* loop variable of the search loop
    pc,             \* position of run_cs.py
    stabilizers,    \* size held by cs_vqe after update_stabilizers
    H_cs,           \* local H_cs (Unbound until first assigned)
    gs_nrg,         \* local gs_nrg
    gs_psi,         \* local gs_psi
    tried,          \* sizes passed to update_stabilizers, in call order
    printed,        \* sizes printed by the except clause, in order
    raises,         \* exceptions raised inside the try body, in order
    solved,         \* [n, energy] of every exact_gs_energy call that returned
    converged,      \* TRUE once the break of line 57 was taken
    pickled,        \* the record written by pickle.dump (Unbound before)
    \* ---- scripts/run_vqe.py ----
    reps,           \* args.reps
    i,              \* loop variable of the repetition loop
    vqe_pc,         \* position of run_vqe.py
    curr_lowest,
    best_result,
    indicator,
    results,        \* results returned by compute_minimum_eigenvalue, in order
    dumped,         \* what run_vqe.py wrote: [result, indicator]
    \* ---- symmer/utils.py exact_gs_energy ----
    sparse_matrix,
    n_particles,
    number_operator,
    n_eigs,
    gs_pc,          \* position inside exact_gs_energy
    eigs,           \* eigvals/eigvecs, zipped
    idx,            \* position of the for loop of line 40 (1-based)
    psi,            \* cleaned state of the eigenvector under test
    expval_n_particle,
    ret             \* the outcome of the call

cs_vars  == <<n_qubits, n_taper, n, pc, stabilizers, H_cs, gs_nrg, gs_psi,
              tried, printed, raises, solved, converged, pickled>>
vqe_vars == <<reps, i, vqe_pc, curr_lowest, best_result, indicator, results, dumped>>
gs_vars  == <<sparse_matrix, n_particles, number_operator, n_eigs, gs_pc, eigs,
              idx, psi, expval_n_particle, ret>>
vars     == <<cs_vars, vqe_vars, gs_vars, fci_energy>>

\* ---- bounds ----
MaxQubits == 4
MaxReps == 3

\* ---- program constants ----
Tol == 16

Unbound == [unbound |-> TRUE]
None == [none |-> TRUE]

FciEnergies == {-10000}
\* energies a projected Hamiltonian / a VQE run may have, relative to FCI
Offsets == {0, 15, 16, 17, 40}
Energies == {f + o : f \in FciEnergies, o \in Offsets}

(***************************************************************************)
(* scripts/run_cs.py                                                       *)
(***************************************************************************)

\* range(1, H.n_qubits - QT.n_taper + 1): the largest size tried
Bound == n_qubits - n_taper

\* line 56: gs_nrg <= fci_energy + 0.0016
WithinStrict(e) == e < fci_energy + Tol
Within(e) == e <= fci_energy + Tol

\* the for statement fetching the next n, or leaving the loop
Advance ==
    IF n < Bound
    THEN n' = n + 1 /\ pc' = "update"
    ELSE n' = n /\ pc' = "persist"

\* lines 58-60: except Exception as e: print(n, e); continue
ExceptAbort(step) ==
    /\ raises' = Append(raises, [n |-> n, step |-> step])
    /\ printed' = printed
    /\ n' = n /\ pc' = "raised"
Except(step) ==
    /\ raises' = Append(raises, [n |-> n, step |-> step])
    /\ printed' = Append(printed, n)
    /\ Advance

InitIdleCS ==
    /\ n_qubits = 0 /\ n_taper = 0 /\ n = 0 /\ pc = "idle"
    /\ stabilizers = 0 /\ H_cs = Unbound /\ gs_nrg = Unbound /\ gs_psi = Unbound
    /\ tried = <<>> /\ printed = <<>> /\ raises = <<>> /\ solved = <<>>
    /\ converged = FALSE /\ pickled = Unbound

\* the state when the for loop of line 47 is entered with its first n
InitCS ==
    /\ n_qubits \in 1..MaxQubits
    /\ n_taper \in 0..(n_qubits - 1)
    /\ n = 1 /\ pc = "update"
    /\ stabilizers = 0 /\ H_cs = Unbound /\ gs_nrg = Unbound /\ gs_psi = Unbound
    /\ tried = <<>> /\ printed = <<>> /\ raises = <<>> /\ solved = <<>>
    /\ converged = FALSE /\ pickled = Unbound

\* lines 49-51: cs_vqe.update_stabilizers(n_qubits=n, ...), returns or raises
UpdateStabilizers ==
    /\ pc = "update"
    /\ tried' = Append(tried, n)
    /\ \/ /\ stabilizers' = n
          /\ pc' = "project" /\ n' = n
          /\ UNCHANGED <<printed, raises>>
       \/ /\ stabilizers' = stabilizers
          /\ Except("update_stabilizers")
    /\ UNCHANGED <<vqe_vars, gs_vars, fci_energy, n_qubits, n_taper,
                   H_cs, gs_nrg, gs_psi, solved, converged, pickled>>

\* lines 53-54: H_cs = cs_vqe.project_onto_subspace(); print(H_cs)
ProjectOntoSubspace ==
    /\ pc = "project"
    /\ \/ /\ \E e \in Energies : H_cs' = [size |-> stabilizers, energy |-> e]
          /\ pc' = "solve" /\ n' = n
          /\ UNCHANGED <<printed, raises>>
       \/ /\ H_cs' = H_cs
          /\ Except("project_onto_subspace")
    /\ UNCHANGED <<vqe_vars, gs_vars, fci_energy, n_qubits, n_taper,
                   stabilizers, gs_nrg, gs_psi, tried, solved, converged, pickled>>

\* line 55: gs_nrg, gs_psi = exact_gs_energy(H_cs.to_sparse_matrix)
ExactGsEnergyCall ==
    /\ pc = "solve"
    /\ \/ /\ gs_nrg' = H_cs.energy
          /\ gs_psi' = [of |-> H_cs]
          /\ solved' = Append(solved, [n |-> n, energy |-> H_cs.energy])
          /\ pc' = "compare" /\ n' = n
          /\ UNCHANGED <<printed, raises>>
       \/ /\ UNCHANGED <<gs_nrg, gs_psi, solved>>
          /\ Except("exact_gs_energy")
    /\ UNCHANGED <<vqe_vars, gs_vars, fci_energy, n_qubits, n_taper,
                   stabilizers, H_cs, tried, converged, pickled>>

\* lines 56-57: if gs_nrg <= fci_energy + 0.0016: break
CompareNoBreak ==
    /\ pc = "compare"
    /\ converged' = (converged \/ Within(gs_nrg))
    /\ Advance
    /\ UNCHANGED <<vqe_vars, gs_vars, fci_energy, n_qubits, n_taper,
                   stabilizers, H_cs, gs_nrg, gs_psi, tried, printed, raises, solved, pickled>>
Compare ==
    /\ pc = "compare"
    /\ IF Within(gs_nrg)
       THEN converged' = TRUE /\ n' = n /\ pc' = "persist"
       ELSE converged' = converged /\ Advance
    /\ UNCHANGED <<vqe_vars, gs_vars, fci_energy, n_qubits, n_taper,
                   stabilizers, H_cs, gs_nrg, gs_psi, tried, printed, raises, solved, pickled>>

\* lines 62-74: pickle.dump({... "H_cs": H_cs.to_dictionary, "cs_state": gs_psi,
\* ... "n_cs": n, ...}, open(...)); an unbound local raises NameError
PickleDump ==
    /\ pc = "persist"
    /\ IF H_cs = Unbound \/ gs_psi = Unbound
       THEN pc' = "raised" /\ pickled' = pickled
       ELSE /\ pc' = "done"
            /\ pickled' = [H_cs |-> H_cs, cs_state |-> gs_psi,
                           n_qubits |-> n_qubits, n_taper |-> n_qubits - n_taper,
                           n_cs |-> n, fci_energy |-> fci_energy]
    /\ UNCHANGED <<vqe_vars, gs_vars, fci_energy, n_qubits, n_taper,
                   n, stabilizers, H_cs, gs_nrg, gs_psi, tried, printed, raises, solved,
                   converged>>

NextCS ==
    \/ UpdateStabilizers
    \/ ProjectOntoSubspace
    \/ ExactGsEnergyCall
    \/ Compare
    \/ PickleDump

(***************************************************************************)
(* scripts/run_vqe.py                                                      *)
(***************************************************************************)

\* np.inf of line 31: above every energy of the model
Inf == 1000000

InitIdleVQE ==
    /\ reps = 0 /\ i = 0 /\ vqe_pc = "idle"
    /\ curr_lowest = Inf /\ best_result = None /\ indicator = "fail"
    /\ results = <<>> /\ dumped = Unbound

\* line 31, with args.reps parsed
InitVQE ==
    /\ reps \in 0..MaxReps
    /\ i = 0 /\ vqe_pc = "loop"
    /\ curr_lowest = Inf /\ best_result = None /\ indicator = "fail"
    /\ results = <<>> /\ dumped = Unbound

\* line 62: result.optimal_value < data["fci_energy"] + 0.0016
Success(result) == result.optimal_value < fci_energy + Tol

\* lines 32-67: one repetition of the loop body
Repetition ==
    /\ vqe_pc = "loop"
    /\ i < reps
    /\ \E v \in Energies :
        LET result == [rep |-> i, optimal_value |-> v] IN
        /\ results' = Append(results, result)
        /\ IF Success(result)
           THEN /\ indicator' = "success"
                /\ vqe_pc' = "dump"
                /\ UNCHANGED <<i, curr_lowest, best_result>>
           ELSE /\ IF result.optimal_value < curr_lowest
                   THEN curr_lowest' = result.optimal_value /\ best_result' = result
                   ELSE UNCHANGED <<curr_lowest, best_result>>
                /\ i' = i + 1
                /\ UNCHANGED <<indicator, vqe_pc>>
    /\ UNCHANGED <<cs_vars, gs_vars, fci_energy,
                   reps, dumped>>

\* line 32: range(args.reps) is exhausted
RangeExhausted ==
    /\ vqe_pc = "loop"
    /\ i = reps
    /\ vqe_pc' = "dump"
    /\ UNCHANGED <<cs_vars, gs_vars, fci_energy,
                   reps, i, curr_lowest, best_result, indicator, results, dumped>>

\* lines 69-73: pickle.dump(best_result, open(f"...-{indicator}.pckl", "wb"))
VqePickleDump ==
    /\ vqe_pc = "dump"
    /\ dumped' = [result |-> best_result, indicator |-> indicator]
    /\ vqe_pc' = "done"
    /\ UNCHANGED <<cs_vars, gs_vars, fci_energy,
                   reps, i, curr_lowest, best_result, indicator, results>>

NextVQE ==
    \/ Repetition
    \/ RangeExhausted
    \/ VqePickleDump

(***************************************************************************)
(* symmer/utils.py  exact_gs_energy                                        *)
(*                                                                         *)
(* A basis state is its row of psi.state_matrix: a tuple of nq bits.  A    *)
(* statevector is the set of its entries [b |-> bits, w |-> weight], where *)
(* w is the squared magnitude of the amplitude in units of 1/W and w = 0   *)
(* stands for an amplitude below the cleanup threshold 1e-5.  A Hermitian  *)
(* matrix is given by its eigendecomposition: eig[k] = [val, vec], with    *)
(* distinct eigenvalues.  A number operator has symmer's X_block, Z_block  *)
(* (one tuple of bits per term) and coeff_vec, the coefficients in halves. *)
(* Expectation values are therefore integers in units of 1/(2*W).          *)
(***************************************************************************)

\* ---- bounds ----
MaxEigs == 2          \* n_eigs ranges over 1..MaxEigs
LowLen == 2           \* how many of the lowest eigenpairs Init permutes
MaxParticles == 2     \* n_particles ranges over 0..MaxParticles

\* ---- program constants ----
DenseMax == 32        \* 2**5 of line 21

W == 4
ExpScale == 2 * W

Qubits == {2, 6}
Pow2(q) == IF q = 2 THEN 4 ELSE 64

Bits(q, k) == [j \in 1..q |-> (k \div (2 ^ (q - j))) % 2]
Zeros(q) == [j \in 1..q |-> 0]
Unit(q, a) == [j \in 1..q |-> IF j = a THEN 1 ELSE 0]

RECURSIVE SumSeq(_)
SumSeq(s) == IF s = <<>> THEN 0 ELSE Head(s) + SumSeq(Tail(s))

\* ---- inputs ----

Basis(q, k) == {[b |-> Bits(q, k), w |-> W]}
Mix(q, a, b, wa) == {[b |-> Bits(q, a), w |-> wa], [b |-> Bits(q, b), w |-> W - wa]}

\* orthonormal eigenbases, by basis index 0..2^q-1
EigenVec(q, kind, k) ==
    CASE kind = "comp" -> Basis(q, k)
      [] kind = "noisy" -> Basis(q, k) \cup {[b |-> Bits(q, (k + 1) % Pow2(q)), w |-> 0]}
      [] kind = "bell" -> IF k \in {1, 2} THEN Mix(q, 1, 2, 2) ELSE Basis(q, k)
      [] kind = "tilt" -> IF k = 0 THEN Mix(q, 0, 2, 2)
                          ELSE IF k = 2 THEN Mix(q, 2, 0, 2)
                          ELSE IF k = 1 THEN Mix(q, 1, 3, 1)
                          ELSE IF k = 3 THEN Mix(q, 3, 1, 1)
                          ELSE Basis(q, k)
Kinds == {"comp", "noisy", "bell", "tilt"}

\* injective sequences of length LowLen over the basis indices 0..3
LowOrders == {s \in [1..LowLen -> 0..3] : \A a, b \in 1..LowLen : a # b => s[a] # s[b]}

\* the matrix whose eigenvectors are EigenVec(q, kind, _): the indices of low
\* carry the eigenvalues 1..LowLen, the others follow in index order
Matrix(q, kind, low) ==
    LET lowset == {low[a] : a \in 1..LowLen}
        rank(k) == IF k \in lowset
                   THEN CHOOSE a \in 1..LowLen : low[a] = k
                   ELSE LowLen + 1 + Cardinality({m \in 0..(k - 1) : m \notin lowset})
    IN [nq |-> q,
        eig |-> [k \in 1..Pow2(q) |-> [val |-> rank(k - 1), vec |-> EigenVec(q, kind, k - 1)]]]

Matrices == {Matrix(q, kind, low) : q \in Qubits, kind \in Kinds, low \in LowOrders}

\* sum_j (I - Z_j)/2, the Jordan-Wigner number operator
StandardN(q) ==
    [X_block |-> [t \in 1..(q + 1) |-> Zeros(q)],
     Z_block |-> [t \in 1..(q + 1) |-> IF t = 1 THEN Zeros(q) ELSE Unit(q, t - 1)],
     coeff_vec |-> [t \in 1..(q + 1) |-> IF t = 1 THEN q ELSE -1]]
\* (I - Z_{q-1} Z_q)/2 + (I - Z_q)/2: a diagonal operator with a two-qubit term
PairN(q) ==
    [X_block |-> <<Zeros(q), Zeros(q), Zeros(q)>>,
     Z_block |-> <<Zeros(q), [j \in 1..q |-> IF j >= q - 1 THEN 1 ELSE 0], Unit(q, q)>>,
     coeff_vec |-> <<2, -1, -1>>]
\* the number operator with one term carrying an X
OffDiagonalN(q) ==
    [X_block |-> [t \in 1..(q + 1) |-> IF t = 2 THEN Unit(q, 1) ELSE Zeros(q)],
     Z_block |-> StandardN(q).Z_block,
     coeff_vec |-> StandardN(q).coeff_vec]
NumberOperators(q) == {None, StandardN(q), PairN(q), OffDiagonalN(q)}

\* ---- the function ----

\* ascending order of the eigenvalues (np.argsort, line 30)
Rank(s, k) == Cardinality({m \in DOMAIN s : s[m].val < s[k].val})
SortByVal(s) == [j \in DOMAIN s |-> s[CHOOSE k \in DOMAIN s : Rank(s, k) = j - 1]]

\* np.linalg.eigh (line 27): every eigenpair, ascending
Eigh(M) == SortByVal(M.eig)
\* sp.sparse.linalg.eigsh(k=n_eigs, which='SA') (line 22): the k algebraically
\* smallest eigenpairs, as the set the solver may return in any order
Eigsh(M, k) == {M.eig[m] : m \in {a \in DOMAIN M.eig : Rank(M.eig, a) < k}}

\* QuantumState.cleanup(zero_threshold=1e-5) (line 41)
Cleanup(vec) == {e \in vec : e.w > 0}

\* line 42: ~np.any(number_operator.X_block)
DiagonalUnchecked(op) == TRUE
Diagonal(op) == \A t \in DOMAIN op.X_block : \A j \in DOMAIN op.X_block[t] : op.X_block[t][j] = 0

\* lines 45-49: (-1) ** einsum('ij->i', bitwise_and(Z_symp, state_matrix))
SignOr(Z_symp, b) ==
    LET or == [j \in DOMAIN b |-> IF Z_symp[j] = 1 \/ b[j] = 1 THEN 1 ELSE 0]
    IN IF SumSeq(or) % 2 = 0 THEN 1 ELSE -1
Sign(Z_symp, b) ==
    LET and == [j \in DOMAIN b |-> IF Z_symp[j] = 1 /\ b[j] = 1 THEN 1 ELSE 0]
    IN IF SumSeq(and) % 2 = 0 THEN 1 ELSE -1

RECURSIVE SignedWeight(_, _)
\* line 50: np.sum(sign * np.square(abs(psi.state_op.coeff_vec))), in units of 1/W
SignedWeight(Z_symp, state) ==
    IF state = {} THEN 0
    ELSE LET e == CHOOSE x \in state : TRUE
         IN Sign(Z_symp, e.b) * e.w + SignedWeight(Z_symp, state \ {e})

\* lines 43-50: the accumulated expval_n_particle, in units of 1/ExpScale
ExpVal(op, state) ==
    SumSeq([t \in DOMAIN op.Z_block |-> op.coeff_vec[t] * SignedWeight(op.Z_block[t], state)])

\* line 51: round(expval_n_particle), Python's round-half-to-even
RoundDown(x) == x \div ExpScale
Round(x) ==
    LET q == x \div ExpScale
        r == x - q * ExpScale
    IN IF 2 * r < ExpScale THEN q
       ELSE IF 2 * r > ExpScale THEN q + 1
       ELSE IF q % 2 = 0 THEN q ELSE q + 1

Running == [kind |-> "running"]
Return(pair) == [kind |-> "return", evl |-> pair.val, evc |-> pair.vec]
Raise(type, msg) == [kind |-> type, msg |-> msg]

InitIdleGS ==
    /\ sparse_matrix = None /\ n_particles = None /\ number_operator = None
    /\ n_eigs = 0 /\ gs_pc = "idle" /\ eigs = <<>> /\ idx = 0
    /\ psi = {} /\ expval_n_particle = 0 /\ ret = Running

\* the call: sparse_matrix, n_particles, number_operator and n_eigs are arguments
InitGS ==
    /\ sparse_matrix \in Matrices
    /\ n_particles \in {None} \cup {[value |-> k] : k \in 0..MaxParticles}
    /\ number_operator \in NumberOperators(sparse_matrix.nq)
    /\ n_eigs \in 1..MaxEigs
    /\ gs_pc = "start" /\ eigs = <<>> /\ idx = 0
    /\ psi = {} /\ expval_n_particle = 0 /\ ret = Running

\* lines 21-24: the sparse branch
EigshSparse ==
    /\ gs_pc = "start"
    /\ Pow2(sparse_matrix.nq) > DenseMax
    /\ LET found == Eigsh(sparse_matrix, n_eigs) IN
       \E s \in [1..Cardinality(found) -> found] :
          /\ \A a, b \in DOMAIN s : a # b => s[a] # s[b]
          /\ eigs' = s
    /\ gs_pc' = "sort"
    /\ UNCHANGED <<cs_vars, vqe_vars, fci_energy,
                   sparse_matrix, n_particles, number_operator, n_eigs, idx, psi,
                   expval_n_particle, ret>>

\* lines 25-27: the dense branch
EighDense ==
    /\ gs_pc = "start"
    /\ ~(Pow2(sparse_matrix.nq) > DenseMax)
    /\ eigs' = Eigh(sparse_matrix)
    /\ gs_pc' = "sort"
    /\ UNCHANGED <<cs_vars, vqe_vars, fci_energy,
                   sparse_matrix, n_particles, number_operator, n_eigs, idx, psi,
                   expval_n_particle, ret>>

\* lines 30-31: order the eigenvalues by increasing size
ArgSort ==
    /\ gs_pc = "sort"
    /\ eigs' = SortByVal(eigs)
    /\ gs_pc' = "branch"
    /\ UNCHANGED <<cs_vars, vqe_vars, fci_energy,
                   sparse_matrix, n_particles, number_operator, n_eigs, idx, psi,
                   expval_n_particle, ret>>

\* lines 33-35: no particle number given
ReturnLowest ==
    /\ gs_pc = "branch"
    /\ n_particles = None
    /\ ret' = Return(eigs[1])
    /\ gs_pc' = "done"
    /\ UNCHANGED <<cs_vars, vqe_vars, fci_energy,
                   sparse_matrix, n_particles, number_operator, n_eigs, eigs, idx, psi,
                   expval_n_particle>>

\* lines 36-37: assert(number_operator is not None)
AssertNumberOperator ==
    /\ gs_pc = "branch"
    /\ n_particles # None
    /\ IF number_operator = None
       THEN /\ ret' = Raise("AssertionError", "Must specify the number operator.")
            /\ gs_pc' = "done" /\ idx' = idx
       ELSE /\ ret' = ret
            /\ gs_pc' = "scan" /\ idx' = 1
    /\ UNCHANGED <<cs_vars, vqe_vars, fci_energy,
                   sparse_matrix, n_particles, number_operator, n_eigs, eigs, psi,
                   expval_n_particle>>

\* lines 40-52: one pass of the for loop over zip(eigvals, eigvecs.T)
ScanStep ==
    /\ gs_pc = "scan"
    /\ idx <= Len(eigs)
    /\ psi' = Cleanup(eigs[idx].vec)
    /\ IF ~Diagonal(number_operator)
       THEN /\ ret' = Raise("AssertionError", "Number operator not diagonal")
            /\ gs_pc' = "done"
            /\ UNCHANGED <<idx, expval_n_particle>>
       ELSE /\ expval_n_particle' = ExpVal(number_operator, psi')
            /\ IF Round(expval_n_particle') = n_particles.value
               THEN /\ ret' = Return(eigs[idx])
                    /\ gs_pc' = "done" /\ idx' = idx
               ELSE /\ ret' = ret
                    /\ gs_pc' = "scan" /\ idx' = idx + 1
    /\ UNCHANGED <<cs_vars, vqe_vars, fci_energy,
                   sparse_matrix, n_particles, number_operator, n_eigs, eigs>>

\* line 54: the loop ended without a match
NotFound ==
    /\ gs_pc = "scan"
    /\ idx > Len(eigs)
    /\ ret' = Raise("RuntimeError",
                    "No eigenvector of the correct particle number was identified - try increasing n_eigs.")
    /\ gs_pc' = "done"
    /\ UNCHANGED <<cs_vars, vqe_vars, fci_energy,
                   sparse_matrix, n_particles, number_operator, n_eigs, eigs, idx, psi,
                   expval_n_particle>>

NextGS ==
    \/ EigshSparse
    \/ EighDense
    \/ ArgSort
    \/ ReturnLowest
    \/ AssertNumberOperator
    \/ ScanStep
    \/ NotFound

(***************************************************************************)
(* Specifications: one per program                                         *)
(***************************************************************************)

InitSpecCS == InitCS /\ InitIdleVQE /\ InitIdleGS /\ fci_energy \in FciEnergies
SpecCS == InitSpecCS /\ [][NextCS]_vars

InitSpecVQE == InitVQE /\ InitIdleCS /\ InitIdleGS /\ fci_energy \in FciEnergies
SpecVQE == InitSpecVQE /\ [][NextVQE]_vars

InitSpecGS == InitGS /\ InitIdleCS /\ InitIdleVQE /\ fci_energy \in FciEnergies
SpecGS == InitSpecGS /\ [][NextGS]_vars

(***************************************************************************)
(* Properties of scripts/run_cs.py, checked under SpecCS                   *)
(***************************************************************************)

Threshold == fci_energy + Tol
RaisedAt(m) == \E k \in DOMAIN raises : raises[k].n = m
SolvedAbove(m) == \E k \in DOMAIN solved : solved[k].n = m /\ solved[k].energy > Threshold
SolvedWithin(m) == \E k \in DOMAIN solved : solved[k].n = m /\ solved[k].energy <= Threshold

\* C1: the sizes are tried in the order 1, 2, ... up to the bound, and when the
\* loop halts as converged at n, the eigensolver returned an energy
\* <= fci_energy + 0.0016 at n, while every m < n was tried and did not pass the
\* tolerance test: its iteration raised, or returned an energy above it.
C1_Minimality ==
    /\ tried = [m \in 1..Len(tried) |-> m]
    /\ Len(tried) <= Bound
    /\ converged =>
        /\ Len(tried) = n
        /\ SolvedWithin(n)
        /\ \A m \in 1..(n - 1) :
            /\ RaisedAt(m) \/ SolvedAbove(m)
            /\ ~SolvedWithin(m)

C1_Witness ==
    /\ pc = "done" /\ converged /\ n >= 3
    /\ \E m \in 1..(n - 1) : RaisedAt(m)
    /\ \E m \in 1..(n - 1) : \E k \in DOMAIN solved :
          solved[k].n = m /\ solved[k].energy = Threshold + 1
    /\ solved[Len(solved)].energy = Threshold

\* C2: an energy within the tolerance at the comparison declares convergence,
\* and once convergence is declared no further size is passed to
\* update_stabilizers, project_onto_subspace or exact_gs_energy.
C2_EarlyTermination ==
    [][/\ (pc = "compare" /\ gs_nrg <= Threshold) => converged'
       /\ converged =>
            /\ converged' /\ n' = n
            /\ tried' = tried /\ stabilizers' = stabilizers
            /\ H_cs' = H_cs /\ solved' = solved /\ raises' = raises]_vars

C2_Witness ==
    /\ pc = "done" /\ converged /\ n < Bound /\ n >= 2
    /\ raises # <<>>

\* C3: every exception raised inside an iteration is printed with its n, and the
\* loop goes on to n+1 when n+1 is within the bound; the search ends only by
\* convergence or by the range being exhausted.
C3_FailureIsolation ==
    /\ Len(printed) = Len(raises)
    /\ \A k \in DOMAIN raises :
        LET m == raises[k].n IN
        /\ printed[k] = m
        /\ m < Bound =>
            \/ n = m + 1 /\ pc = "update"
            \/ \E t \in DOMAIN tried : tried[t] = m + 1
    /\ pc \in {"persist", "done", "raised"} => converged \/ Len(tried) = Bound

C3_Witness ==
    /\ pc = "done"
    /\ \E a, b, c \in DOMAIN raises :
        /\ raises[a].step = "update_stabilizers"
        /\ raises[b].step = "project_onto_subspace"
        /\ raises[c].step = "exact_gs_energy"
    /\ \E k \in DOMAIN raises : raises[k].n < n

\* C4: when no size within the bound meets the tolerance, the run ends without
\* raising and reaches pickle.dump, whatever iterations raised.
C4_ExhaustionPersists ==
    (~converged /\ pc \notin {"update", "project", "solve", "compare", "persist"})
        => (pc = "done" /\ pickled # Unbound)

\* C9: the record written at the end holds values of one iteration: H_cs is the
\* projection made at size n_cs and cs_state is the eigensolver's result for it.
C9_RecordOfOneIteration ==
    pc = "done" =>
        /\ pickled.H_cs.size = pickled.n_cs
        /\ pickled.cs_state = [of |-> pickled.H_cs]

(***************************************************************************)
(* Properties of scripts/run_vqe.py, checked under SpecVQE                 *)
(***************************************************************************)

Succeeded(k) == results[k].optimal_value < fci_energy + Tol

\* C10: the indicator is 'success' exactly when some repetition returned
\* optimal_value < fci_energy + 0.0016, the loop stops at the first such
\* repetition, and the result written with the indicator is that repetition's
\* result on 'success' and the lowest-valued result of all repetitions on 'fail'.
C10_ResultMatchesIndicator ==
    vqe_pc = "done" =>
        /\ (dumped.indicator = "success") <=> (\E k \in DOMAIN results : Succeeded(k))
        /\ \A k \in DOMAIN results : Succeeded(k) => k = Len(results)
        /\ dumped.indicator = "success" => dumped.result = results[Len(results)]
        /\ (dumped.indicator = "fail" /\ results # <<>>) =>
            /\ \E k \in DOMAIN results : dumped.result = results[k]
            /\ \A k \in DOMAIN results :
                  dumped.result.optimal_value <= results[k].optimal_value

(***************************************************************************)
(* Properties of exact_gs_energy, checked under SpecGS                     *)
(***************************************************************************)

Filtered == n_particles # None /\ number_operator # None
HasXSupport(op) == \E t \in DOMAIN op.X_block : \E j \in DOMAIN op.X_block[t] : op.X_block[t][j] # 0

\* r is the integer nearest to x / ExpScale, a tie going to the even one
NearestIs(x, r) ==
    LET d == IF x >= r * ExpScale THEN x - r * ExpScale ELSE r * ExpScale - x
    IN 2 * d < ExpScale \/ (2 * d = ExpScale /\ r % 2 = 0)
\* the eigenpair has the requested particle number
Matching(pair) ==
    NearestIs(ExpVal(number_operator, Cleanup(pair.vec)), n_particles.value)

\* C5: with a particle-number filter only the n_eigs lowest eigenpairs are
\* examined: when none of them has the requested particle number the call
\* raises the 'not found' RuntimeError, whatever the dimension of the matrix.
C5_WindowBound ==
    (gs_pc = "done" /\ Filtered /\ ~HasXSupport(number_operator)
       /\ \A m \in DOMAIN sparse_matrix.eig :
             sparse_matrix.eig[m].val <= n_eigs => ~Matching(sparse_matrix.eig[m]))
        => ret.kind = "RuntimeError"

\* C6: with n_particles given, the eigenpairs are scanned in ascending eigenvalue
\* order and the pair returned is an eigenpair of the matrix whose rounded
\* number-operator expectation equals n_particles, no eigenpair of lower
\* eigenvalue having that particle number.
C6_FirstMatchReturned ==
    (gs_pc = "done" /\ Filtered /\ ret.kind = "return") =>
        /\ \A a, b \in DOMAIN eigs : a < b => eigs[a].val < eigs[b].val
        /\ \E m \in DOMAIN sparse_matrix.eig :
            /\ sparse_matrix.eig[m] = [val |-> ret.evl, vec |-> ret.evc]
            /\ Matching(sparse_matrix.eig[m])
        /\ \A m \in DOMAIN sparse_matrix.eig :
            sparse_matrix.eig[m].val < ret.evl => ~Matching(sparse_matrix.eig[m])

C6_Witness ==
    /\ gs_pc = "done" /\ Filtered /\ ret.kind = "return"
    /\ ret.evl = 2
    /\ ret.evc = Mix(sparse_matrix.nq, 1, 2, 2)
    /\ n_particles.value = 1
    /\ \E m \in DOMAIN sparse_matrix.eig :
        sparse_matrix.eig[m].val = 1 /\ sparse_matrix.eig[m].vec = Basis(sparse_matrix.nq, 3)

\* C7 as stated: a number operator with X support always makes the call raise
\* 'Number operator not diagonal', whatever the other arguments.
C7_AlwaysRaises ==
    (number_operator # None /\ HasXSupport(number_operator)) =>
        /\ ret.kind # "return"
        /\ gs_pc = "done" => ret = Raise("AssertionError", "Number operator not diagonal")

\* C7 amended: when n_particles is given, a number operator with X support
\* makes the call raise 'Number operator not diagonal' and no eigenpair is
\* returned.
C7_RaisesWhenFiltered ==
    (Filtered /\ HasXSupport(number_operator)) =>
        /\ ret.kind # "return"
        /\ gs_pc = "done" => ret = Raise("AssertionError", "Number operator not diagonal")

C7_Witness ==
    /\ gs_pc = "done" /\ Filtered /\ HasXSupport(number_operator)
    /\ ret = Raise("AssertionError", "Number operator not diagonal")
    /\ Len(eigs) > n_eigs

HammingWeight(b) == Cardinality({j \in DOMAIN b : b[j] = 1})
RECURSIVE ZEntry(_, _, _)
\* <b| Z-string |b> as the product of the one-qubit entries of qubits j..nq
ZEntry(Z_symp, b, j) ==
    IF j > Len(b) THEN 1
    ELSE (IF Z_symp[j] = 1 /\ b[j] = 1 THEN -1 ELSE 1) * ZEntry(Z_symp, b, j + 1)
\* <b| op |b>, in halves
DiagonalEntry(op, b) ==
    SumSeq([t \in DOMAIN op.Z_block |-> op.coeff_vec[t] * ZEntry(op.Z_block[t], b, 1)])

\* C8: for a diagonal number operator and a computational-basis state b, the
\* accumulated expval_n_particle is the diagonal entry <b|N|b> of the operator,
\* which for the standard number operator is the Hamming weight of b.
C8_BasisStateCount ==
    (gs_pc \in {"scan", "done"} /\ idx >= 1 /\ Filtered
       /\ ~HasXSupport(number_operator) /\ Cardinality(psi) = 1) =>
        \A e \in psi :
            /\ expval_n_particle * 2 = ExpScale * DiagonalEntry(number_operator, e.b)
            /\ number_operator = StandardN(sparse_matrix.nq) =>
                  expval_n_particle = ExpScale * HammingWeight(e.b)

C8_Witness ==
    /\ gs_pc \in {"scan", "done"} /\ idx >= 1 /\ Filtered
    /\ number_operator = PairN(sparse_matrix.nq)
    /\ psi = {[b |-> Bits(sparse_matrix.nq, 3), w |-> W]}
    /\ expval_n_particle = ExpScale

====
